---------------------------- MODULE Spec2Model ----------------------------
(***************************************************************************)
(* A model of plot/scripts/plotter.py: the command line of main, the two   *)
(* JSON documents it loads, process_layout_range, process_trace with its   *)
(* helper remove_empty_keys, and the assembly and display of the figure.   *)
(*                                                                         *)
(* JSON values are tagged records of one shape, so that any two of them    *)
(* can be compared:                                                        *)
(*   [t |-> "null" | "num" | "str" | "list" | "map", a |-> atom text,     *)
(*    kids |-> the entries of a list or mapping, each [k |-> key, v |-> value]] *)
(* A mapping keeps its entries in insertion order, as a Python dict does;  *)
(* the entries of a list have the key "".                                  *)
(***************************************************************************)
EXTENDS Integers, Sequences, FiniteSets, TLC

\* ------------------------------------------------------------ bounds
MaxDepth  == 1   \* nesting depth of the generic JSON values
MaxLen    == 1   \* length of the lists inside the generic JSON values
MaxRange  == 3   \* length of an axis range list
MaxFields == 2   \* fields of a trace besides trace_type
MaxTraces == 2   \* traces in the data file
MaxArgs   == 2   \* options on the command line
MaxCalls  == 2   \* calls of remove_empty_keys on one mapping

\* ------------------------------------------------------------ JSON values
Null      == [t |-> "null", a |-> "", kids |-> <<>>]
Num(n)    == [t |-> "num", a |-> n, kids |-> <<>>]
Str(s)    == [t |-> "str", a |-> s, kids |-> <<>>]
Entry(key, val) == [k |-> key, v |-> val]
Map(es)   == [t |-> "map", a |-> "", kids |-> es]
RECURSIVE Items(_)
Items(vs) == IF vs = <<>> THEN <<>> ELSE <<Entry("", Head(vs))>> \o Items(Tail(vs))
List(vs)  == [t |-> "list", a |-> "", kids |-> Items(vs)]
Elems(l)  == [j \in 1..Len(l.kids) |-> l.kids[j].v]

IsMap(v)  == v.t = "map"
IsList(v) == v.t = "list"
Sized(v)  == v.t \in {"list", "map", "str"}
\* len(v) of a list, a mapping or a string
PyLen(v)  == IF v.t = "str" THEN Len(v.a) ELSE Len(v.kids)

Keys(m)     == {m.kids[j].k : j \in 1..Len(m.kids)}
Has(m, key) == key \in Keys(m)
Get(m, key) == m.kids[CHOOSE j \in 1..Len(m.kids) : m.kids[j].k = key].v
RECURSIVE DropKey(_, _)
DropKey(es, key) ==
  IF es = <<>> THEN <<>>
  ELSE IF Head(es).k = key THEN Tail(es)
  ELSE <<Head(es)>> \o DropKey(Tail(es), key)
\* m.pop(key) on a mapping that has the key: the other entries keep their order
Pop(m, key) == Map(DropKey(m.kids, key))
\* m[key] = val: in place when the key is there, appended when it is not
Put(m, key, val) ==
  IF Has(m, key)
  THEN Map([j \in 1..Len(m.kids) |->
              IF m.kids[j].k = key THEN Entry(key, val) ELSE m.kids[j]])
  ELSE Map(Append(m.kids, Entry(key, val)))

\* --------------------------------------------------- sets of JSON values
SeqsUpTo(S, n) == UNION {[1..m -> S] : m \in 0..n}

\* the mappings whose keys are among the sequence ks (in that order), with at
\* most n entries, the value of key k drawn from V[k]
RECURSIVE EntriesOver(_, _, _)
EntriesOver(ks, V, n) ==
  IF ks = <<>> \/ n = 0 THEN {<<>>}
  ELSE LET without == EntriesOver(Tail(ks), V, n)
           fewer   == EntriesOver(Tail(ks), V, n - 1)
           with    == {<<Entry(Head(ks), v)>> \o rest : v \in V[Head(ks)], rest \in fewer}
       IN  without \cup with

\* The generic values: a number, the lists of numbers and empty containers, and
\* the mappings with a key "a" of any value one level down and a sibling "b".
Leaves == {Num("1"), List(<<>>), Map(<<>>)}
RECURSIVE Values(_)
Values(depth) ==
  IF depth = 0 THEN Leaves
  ELSE LET below == Values(depth - 1)
       IN  below
           \cup {List(s) : s \in SeqsUpTo(Leaves, MaxLen)}
           \cup {Map(es) : es \in EntriesOver(<<"a", "b">>,
                                   [k \in {"a", "b"} |-> IF k = "a" THEN below ELSE {Num("1")}], 2)}

\* ------------------------------------------------- remove_empty_keys (28-42)
\* A faulty variant: emptiness is tested before the children are cleaned, so a
\* mapping that only becomes empty by the cleaning is kept.
RECURSIVE rek_test_first(_)
rek_test_first(d) ==
  LET keep(e) == IF IsMap(e.v) \/ IsList(e.v) THEN PyLen(e.v) # 0 ELSE TRUE
      clean(e) == IF IsMap(e.v) THEN Entry(e.k, rek_test_first(e.v)) ELSE e
      kept == SelectSeq(d.kids, keep)
  IN  Map([j \in 1..Len(kept) |-> clean(kept[j])])

\* A faulty variant: no recursion; only the keys of d itself are looked at.
rek_shallow(d) ==
  LET keep(e) == IF IsMap(e.v) \/ IsList(e.v) THEN PyLen(e.v) # 0 ELSE TRUE
  IN  Map(SelectSeq(d.kids, keep))

\* for k in list(result.keys()): a mapping value is cleaned first and popped
\* when it is then empty; a list value is popped when it is empty, and is not
\* descended into; any other value stays.
RECURSIVE remove_empty_keys(_)
remove_empty_keys(d) ==
  LET clean(e) == IF IsMap(e.v) THEN Entry(e.k, remove_empty_keys(e.v)) ELSE e
      cleaned == [j \in 1..Len(d.kids) |-> clean(d.kids[j])]
      keep(e) == IF IsMap(e.v) \/ IsList(e.v) THEN PyLen(e.v) # 0 ELSE TRUE
  IN  Map(SelectSeq(cleaned, keep))


\* ------------------------------------------------------------ the state
VARIABLES
  pc,          \* where main is
  argv,        \* the command line: the options in the order given
  argi,        \* the position in argv of the option argparse takes next
  handles,     \* the flags whose path is_valid_file has opened (args.data, args.layout)
  loaded,      \* the flags whose handle load_json_file has read
  data,        \* the parsed data file; process_trace changes its elements in place
  data0,       \* the data file as it was parsed
  layout,      \* the parsed layout file, changed in place
  layout0,     \* the layout file as it was parsed
  axes,        \* the axes the loop of main has still to hand to process_layout_range
  i,           \* the index in data of the trace being processed
  trace,       \* process_trace's trace
  trace_type,  \* process_trace's trace_type
  plot_data,   \* the chart objects built so far
  fig,         \* the figure, once assembled
  shown,       \* fig.show() was called
  err,         \* what ended the run: "" while it runs or when it ends well
  d,           \* the mapping handed to remove_empty_keys when it is called alone
  seen         \* the values d had on entry to each such call

vars == <<pc, argv, argi, handles, loaded, data, data0, layout, layout0, axes, i,
          trace, trace_type, plot_data, fig, shown, err, d, seen>>

NoTrace == Map(<<>>)
NoFig   == [data |-> <<>>, layout |-> Null, built |-> FALSE]

\* ---------------------------------------------------------- is_valid_file (45-52)
Flags == {"--data", "--layout"}
\* a faulty variant: the path is opened whether it exists or not
is_valid_file_no_check(exists) == [ok |-> TRUE]
\* parser.error(...) when the path does not exist, else the open handle
is_valid_file(exists) == [ok |-> exists]

\* ---------------------------------------------------- process_layout_range (62-69)
AxisKey(axis) == IF axis = "x" THEN "xaxis" ELSE "yaxis"
\* 'range' in v, for the value v of an axis entry
InRange(v) ==
  CASE v.t = "map"  -> [ok |-> TRUE, v |-> Has(v, "range")]
    [] v.t = "list" -> [ok |-> TRUE, v |-> \E j \in 1..Len(v.kids) : v.kids[j].v = Str("range")]
    [] OTHER        -> [ok |-> FALSE, v |-> FALSE]

\* a faulty variant: only a range longer than 2 is nulled (> for !=)
process_layout_range_gt(lay, axis) ==
  LET key == AxisKey(axis) IN
  IF ~Has(lay, key) THEN [ok |-> TRUE, v |-> lay, e |-> ""]
  ELSE LET ax == Get(lay, key)
           in == InRange(ax)
       IN
    IF ~in.ok THEN [ok |-> FALSE, v |-> lay, e |-> "TypeError"]
    ELSE IF ~in.v THEN [ok |-> TRUE, v |-> lay, e |-> ""]
    ELSE IF ~IsMap(ax) THEN [ok |-> FALSE, v |-> lay, e |-> "TypeError"]
    ELSE LET rng == Get(ax, "range") IN
      IF ~Sized(rng) THEN [ok |-> FALSE, v |-> lay, e |-> "TypeError"]
      ELSE IF PyLen(rng) > 2
           THEN [ok |-> TRUE, v |-> Put(lay, key, Put(ax, "range", Null)), e |-> ""]
           ELSE [ok |-> TRUE, v |-> lay, e |-> ""]

process_layout_range(lay, axis) ==
  LET key == AxisKey(axis) IN
  IF ~Has(lay, key) THEN [ok |-> TRUE, v |-> lay, e |-> ""]
  ELSE LET ax == Get(lay, key)
           in == InRange(ax)
       IN
    IF ~in.ok THEN [ok |-> FALSE, v |-> lay, e |-> "TypeError"]
    ELSE IF ~in.v THEN [ok |-> TRUE, v |-> lay, e |-> ""]
    \* layout[key]['range'] on a list that holds the string 'range'
    ELSE IF ~IsMap(ax) THEN [ok |-> FALSE, v |-> lay, e |-> "TypeError"]
    ELSE LET rng == Get(ax, "range") IN
      IF ~Sized(rng) THEN [ok |-> FALSE, v |-> lay, e |-> "TypeError"]
      ELSE IF PyLen(rng) # 2
           THEN [ok |-> TRUE, v |-> Put(lay, key, Put(ax, "range", Null)), e |-> ""]
           ELSE [ok |-> TRUE, v |-> lay, e |-> ""]


\* ------------------------------------- map_trace_type_to_plotly_object (72-85)
TypeTags == {"scatter", "pie", "heatmap", "surface", "scatter3d", "bar", "histogram"}
\* a faulty variant: an unknown tag falls back to go.Scatter (type_map.get)
map_trace_type_default(tag) ==
  IF tag.t = "str" /\ tag.a \in TypeTags
  THEN [ok |-> TRUE, cls |-> tag.a] ELSE [ok |-> TRUE, cls |-> "scatter"]
\* type_map[trace_type]: a KeyError for a tag that is not a key of type_map
map_trace_type_to_plotly_object(tag) ==
  IF tag.t = "str" /\ tag.a \in TypeTags
  THEN [ok |-> TRUE, cls |-> tag.a] ELSE [ok |-> FALSE, cls |-> ""]

\* The properties of each chart class, among the field names the model uses
\* (go.Pie has neither x nor z, go.Heatmap and go.Surface have no marker, ...).
SchemaFields(cls) ==
  CASE cls = "scatter"   -> {"x", "marker"}
    [] cls = "pie"       -> {"marker"}
    [] cls = "heatmap"   -> {"x", "z"}
    [] cls = "surface"   -> {"x", "z"}
    [] cls = "scatter3d" -> {"x", "z", "marker"}
    [] cls = "bar"       -> {"x", "marker"}
    [] cls = "histogram" -> {"x", "marker"}
    [] OTHER             -> {}
\* dir(cls) also lists what is no property of the schema: the methods
ClassMethods == {"update"}
Dir(cls) == SchemaFields(cls) \cup ClassMethods

\* ------------------------------------------------------ process_trace (88-118)
custom_keys == {"x_str"}

\* dir(...) + custom_keys (96)
accepted(cls) == Dir(cls) \cup custom_keys

\* a faulty variant: no key is popped
filter_keys_none(tr, cls) == tr
\* for k in keys: if k not in accepted: trace.pop(k) (97-100)
filter_keys(tr, cls) ==
  LET keep(e) == e.k \in accepted(cls) IN Map(SelectSeq(tr.kids, keep))

\* a faulty variant: a missing key of marker is skipped (pop(key, None))
pie_fixup_lenient(tr, tag) ==
  IF tag = Str("pie") /\ Has(tr, "marker")
  THEN LET m == Get(tr, "marker") IN
       IF ~IsMap(m) THEN [ok |-> FALSE, v |-> tr, e |-> "AttributeError"]
       ELSE [ok |-> TRUE, v |-> Put(tr, "marker", Pop(Pop(m, "opacity"), "colorscale")), e |-> ""]
  ELSE [ok |-> TRUE, v |-> tr, e |-> ""]

\* if trace_type == 'pie': if "marker" in trace: the two pops (104-107); the
\* first pop of a key that is not there raises KeyError, the marker left as
\* the pops before it made it
pie_fixup(tr, tag) ==
  IF tag = Str("pie") /\ Has(tr, "marker")
  THEN LET m == Get(tr, "marker") IN
       IF ~IsMap(m) THEN [ok |-> FALSE, v |-> tr, e |-> "AttributeError"]
       ELSE IF ~Has(m, "opacity") THEN [ok |-> FALSE, v |-> tr, e |-> "KeyError"]
       ELSE LET m1 == Pop(m, "opacity") IN
            IF ~Has(m1, "colorscale")
            THEN [ok |-> FALSE, v |-> Put(tr, "marker", m1), e |-> "KeyError"]
            ELSE [ok |-> TRUE, v |-> Put(tr, "marker", Pop(m1, "colorscale")), e |-> ""]
  ELSE [ok |-> TRUE, v |-> tr, e |-> ""]

\* a faulty variant: x_str is popped only for a bar
xstr_fixup_bar_only(tr, tag) ==
  IF Has(tr, "x_str") /\ tag = Str("bar")
  THEN Pop(Put(tr, "x", Get(tr, "x_str")), "x_str")
  ELSE tr

\* if "x_str" in trace: ... (109-112)
xstr_fixup(tr, tag) ==
  IF Has(tr, "x_str")
  THEN Pop(IF tag = Str("bar") THEN Put(tr, "x", Get(tr, "x_str")) ELSE tr, "x_str")
  ELSE tr

\* The rows of a nested list one after the other.
RECURSIVE Concat(_)
Concat(rows) == IF rows = <<>> THEN <<>> ELSE Head(rows).kids \o Concat(Tail(rows))

\* What np.array(z) makes of a list z: "flat" (one dimension: no element is a
\* list), "matrix" (two dimensions: every element is a list of the same length
\* and of no lists) or "ragged" (anything else).
Shape(z) ==
  LET es == Elems(z) IN
  IF \A j \in 1..Len(es) : ~IsList(es[j]) THEN "flat"
  ELSE IF /\ \A j \in 1..Len(es) : IsList(es[j]) /\ PyLen(es[j]) = PyLen(es[1])
          /\ \A j \in 1..Len(es) : \A c \in 1..PyLen(es[j]) : ~IsList(es[j].kids[c].v)
       THEN "matrix"
       ELSE "ragged"

\* np.array(z).flatten() (116), the array written as a list: a z that is no list
\* becomes the array of that one element. For a ragged z the
\* outcome depends on the numpy installed: a ValueError (1.24 and later), or an
\* array of one dimension whose elements are the rows themselves (before).
Flattened(z) ==
  CASE ~IsList(z)          -> {[ok |-> TRUE, v |-> List(<<z>>), e |-> ""]}
    [] Shape(z) = "flat"   -> {[ok |-> TRUE, v |-> z, e |-> ""]}
    [] Shape(z) = "matrix" -> {[ok |-> TRUE, v |-> [t |-> "list", a |-> "", kids |-> Concat(Elems(z))], e |-> ""]}
    [] OTHER               -> {[ok |-> FALSE, v |-> z, e |-> "np.array: ValueError"],
                               [ok |-> TRUE, v |-> z, e |-> ""]}

\* the constructor's own check of the keys of its argument: a key that is no
\* property of the class is a ValueError
ValidProps(cls, tr) == Keys(tr) \subseteq SchemaFields(cls)


\* ------------------------------------------------------------ the inputs
Argvs == SeqsUpTo([flag : Flags, exists : BOOLEAN], MaxArgs)

One == Num("1")
Two == Num("2")
Typed(tag, es) == Map(<<Entry("trace_type", Str(tag))>> \o es)

\* the documents of a whole run
MainTraces ==
  { Typed("scatter", <<Entry("x", List(<<One, Two>>))>>),
    Typed("pie", <<Entry("marker", Map(<<Entry("opacity", One)>>))>>),
    Typed("violin", <<Entry("x", List(<<One>>))>>),
    Typed("bar", <<Entry("x_str", List(<<Str("s")>>))>>),
    Typed("scatter3d", <<Entry("z", List(<<List(<<One, Two>>), List(<<One>>)>>))>>),
    Map(<<Entry("x", List(<<One>>))>>) }
DataFiles == SeqsUpTo(MainTraces, MaxTraces)
MainLayouts ==
  { Map(<<Entry("title", Str("t"))>>),
    Map(<<Entry("xaxis", Map(<<Entry("range", List(<<One>>))>>))>>),
    Map(<<Entry("yaxis", Map(<<Entry("range", Null)>>))>>) }

\* the layouts handed to process_layout_range
RangeValues ==
  {List(s) : s \in SeqsUpTo({One}, MaxRange)}
    \cup {Null, One, Str("ab"), Str("abc"), Map(<<Entry("a", One), Entry("b", One)>>)}
AxisValues ==
  {Null, List(<<>>), List(<<Str("range")>>)}
    \cup {Map(es) : es \in EntriesOver(<<"range", "title">>,
                                        [k \in {"range", "title"} |->
                                           IF k = "range" THEN RangeValues ELSE {Str("t")}], 2)}
Layouts ==
  {Map(es) : es \in EntriesOver(<<"title", "xaxis", "yaxis">>,
                                [k \in {"title", "xaxis", "yaxis"} |->
                                   IF k = "title" THEN {Str("t")} ELSE AxisValues], 3)}

\* the traces handed to process_trace
Three == Num("3")
Four  == Num("4")
ZValues ==
  { List(<<>>), List(<<One, Two>>),
    List(<<List(<<One, Two>>), List(<<Three, Four>>)>>),    \* [[1,2],[3,4]]
    List(<<List(<<One>>), List(<<Two>>), List(<<Three>>)>>), \* [[1],[2],[3]]
    List(<<List(<<>>), List(<<>>)>>),                        \* [[],[]]
    List(<<List(<<One, Two>>), List(<<Three>>)>>),           \* [[1,2],[3]]
    List(<<One, List(<<Two>>)>>) }                           \* [1,[2]]
MarkerValues ==
  {Map(es) : es \in EntriesOver(<<"opacity", "colorscale">>,
                                [k \in {"opacity", "colorscale"} |->
                                   IF k = "opacity" THEN {One, List(<<>>)}
                                   ELSE {Str("Viridis"), List(<<>>), Map(<<>>)}], 2)}
TraceFields == <<"x", "x_str", "z", "marker", "foo", "update">>
FieldValues ==
  [k \in {"x", "x_str", "z", "marker", "foo", "update"} |->
     CASE k = "x"      -> {List(<<>>), List(<<One>>)}
       [] k = "x_str"  -> Values(MaxDepth) \cup {List(<<Str("s")>>)}
       [] k = "z"      -> ZValues
       [] k = "marker" -> MarkerValues
       [] OTHER        -> {One}]
TraceTags == {<<>>} \cup {<<Entry("trace_type", Str(tag))>> : tag \in TypeTags \cup {"violin"}}
TraceInputs ==
  {Map(tt \o es) : tt \in TraceTags, es \in EntriesOver(TraceFields, FieldValues, MaxFields)}

\* the mappings handed to remove_empty_keys alone
Dicts ==
  {Map(es) : es \in EntriesOver(<<"a", "b">>, [k \in {"a", "b"} |-> Values(MaxDepth)], 2)}


\* ------------------------------------------------------------ main (121-156)
\* an exception nothing catches: the traceback, and the process ends
Abort(e) == pc' = "abort" /\ err' = e

\* trace and data[i] are one object
SetTrace(tr) == trace' = tr /\ data' = [data EXCEPT ![i] = tr]

AfterLayout == IF data = <<>> THEN "figure" ELSE "trace_pop"

\* parser.parse_args() (140) takes the options in the order given, and calls
\* type=is_valid_file on the value of each as it meets it
ParseArg ==
  /\ pc = "parse_args" /\ argi <= Len(argv)
  /\ LET arg == argv[argi] IN
     /\ argi' = argi + 1
     /\ IF is_valid_file(arg.exists).ok
        THEN /\ handles' = handles \cup {arg.flag}
             /\ UNCHANGED <<pc, err>>
        ELSE \* parser.error prints the message and exits with status 2
             /\ pc' = "exit" /\ err' = "file_not_found"
             /\ UNCHANGED handles
  /\ UNCHANGED <<argv, loaded, data, data0, layout, layout0, axes, i, trace, trace_type,
                 plot_data, fig, shown, d, seen>>

\* the end of the command line: both options are required=True
ParseEnd ==
  /\ pc = "parse_args" /\ argi > Len(argv)
  /\ IF Flags \subseteq handles
     THEN pc' = "load_data" /\ UNCHANGED err
     ELSE pc' = "exit" /\ err' = "required"
  /\ UNCHANGED <<argv, argi, handles, loaded, data, data0, layout, layout0, axes, i, trace,
                 trace_type, plot_data, fig, shown, d, seen>>

\* data = load_json_file(args.data) (143): json.load raises on a malformed file
LoadData ==
  /\ pc = "load_data"
  /\ loaded' = loaded \cup {"--data"}
  /\ \/ \E doc \in DataFiles :
          /\ data' = doc /\ data0' = doc
          /\ pc' = "load_layout" /\ UNCHANGED err
     \/ Abort("JSONDecodeError") /\ UNCHANGED <<data, data0>>
  /\ UNCHANGED <<argv, argi, handles, layout, layout0, axes, i, trace, trace_type,
                 plot_data, fig, shown, d, seen>>

\* layout = load_json_file(args.layout) (146)
LoadLayout ==
  /\ pc = "load_layout"
  /\ loaded' = loaded \cup {"--layout"}
  /\ \/ \E doc \in MainLayouts :
          /\ layout' = doc /\ layout0' = doc
          /\ pc' = "layout_range" /\ UNCHANGED err
     \/ Abort("JSONDecodeError") /\ UNCHANGED <<layout, layout0>>
  /\ UNCHANGED <<argv, argi, handles, data, data0, axes, i, trace, trace_type,
                 plot_data, fig, shown, d, seen>>

\* one turn of: for axis in ['x', 'y']: process_layout_range(layout, axis) (149-150)
LayoutRange ==
  /\ pc = "layout_range" /\ axes # <<>>
  /\ LET r == process_layout_range(layout, Head(axes)) IN
     /\ layout' = r.v
     /\ IF r.ok
        THEN /\ axes' = Tail(axes)
             /\ pc' = (IF Tail(axes) = <<>> THEN AfterLayout ELSE "layout_range")
             /\ UNCHANGED err
        ELSE Abort(r.e) /\ UNCHANGED axes
  /\ UNCHANGED <<argv, argi, handles, loaded, data, data0, layout0, i, trace, trace_type,
                 plot_data, fig, shown, d, seen>>

\* trace_type = trace.pop("trace_type") (93)
TracePop ==
  /\ pc = "trace_pop"
  /\ IF Has(data[i], "trace_type")
     THEN /\ trace_type' = Get(data[i], "trace_type")
          /\ SetTrace(Pop(data[i], "trace_type"))
          /\ pc' = "trace_filter" /\ UNCHANGED err
     ELSE /\ Abort("KeyError")
          /\ SetTrace(data[i]) /\ UNCHANGED trace_type
  /\ UNCHANGED <<argv, argi, handles, loaded, data0, layout, layout0, axes, i,
                 plot_data, fig, shown, d, seen>>

\* the keys Plotly does not accept are removed (96-100)
TraceFilter ==
  /\ pc = "trace_filter"
  /\ LET m == map_trace_type_to_plotly_object(trace_type) IN
     IF m.ok
     THEN /\ SetTrace(filter_keys(trace, m.cls))
          /\ pc' = "trace_strip" /\ UNCHANGED err
     ELSE Abort("KeyError") /\ UNCHANGED <<trace, data>>
  /\ UNCHANGED <<argv, argi, handles, loaded, data0, layout, layout0, axes, i, trace_type,
                 plot_data, fig, shown, d, seen>>

\* trace = remove_empty_keys(trace) (102)
TraceStrip ==
  /\ pc = "trace_strip"
  /\ SetTrace(remove_empty_keys(trace))
  /\ pc' = "trace_pie"
  /\ UNCHANGED <<argv, argi, handles, loaded, data0, layout, layout0, axes, i, trace_type,
                 plot_data, fig, shown, err, d, seen>>

\* the pie's marker (104-107)
TracePie ==
  /\ pc = "trace_pie"
  /\ LET r == pie_fixup(trace, trace_type) IN
     /\ SetTrace(r.v)
     /\ IF r.ok THEN pc' = "trace_xstr" /\ UNCHANGED err ELSE Abort(r.e)
  /\ UNCHANGED <<argv, argi, handles, loaded, data0, layout, layout0, axes, i, trace_type,
                 plot_data, fig, shown, d, seen>>

\* x_str (109-112)
TraceXStr ==
  /\ pc = "trace_xstr"
  /\ SetTrace(xstr_fixup(trace, trace_type))
  /\ pc' = "trace_z"
  /\ UNCHANGED <<argv, argi, handles, loaded, data0, layout, layout0, axes, i, trace_type,
                 plot_data, fig, shown, err, d, seen>>

\* if trace_type == 'scatter3d': trace["z"] = np.array(trace["z"]).flatten() (115-116)
TraceZ ==
  /\ pc = "trace_z"
  /\ IF trace_type = Str("scatter3d")
     THEN IF Has(trace, "z")
          THEN \E r \in Flattened(Get(trace, "z")) :
                 IF r.ok
                 THEN /\ SetTrace(Put(trace, "z", r.v))
                      /\ pc' = "trace_new" /\ UNCHANGED err
                 ELSE Abort(r.e) /\ UNCHANGED <<trace, data>>
          ELSE Abort("KeyError") /\ UNCHANGED <<trace, data>>
     ELSE pc' = "trace_new" /\ UNCHANGED <<trace, data, err>>
  /\ UNCHANGED <<argv, argi, handles, loaded, data0, layout, layout0, axes, i, trace_type,
                 plot_data, fig, shown, d, seen>>

\* return map_trace_type_to_plotly_object(trace_type)(trace) (118). The
\* constructor raises ValueError for a key that is no property of the class;
\* it checks the values too, and which values it refuses is not modelled: it may
\* refuse any argument.
TraceNew ==
  /\ pc = "trace_new"
  /\ LET cls == map_trace_type_to_plotly_object(trace_type).cls IN
     \/ /\ ValidProps(cls, trace)
        /\ plot_data' = Append(plot_data, [cls |-> cls, props |-> trace])
        /\ i' = i + 1
        /\ pc' = (IF i = Len(data) THEN "figure" ELSE "trace_pop")
        /\ UNCHANGED err
     \/ /\ Abort("constructor: ValueError")
        /\ UNCHANGED <<plot_data, i>>
  /\ UNCHANGED <<argv, argi, handles, loaded, data, data0, layout, layout0, axes, trace,
                 trace_type, fig, shown, d, seen>>

\* fig = go.Figure(data=plot_data, layout=go.Layout(layout)) (155); go.Layout
\* checks its argument as the chart constructors do
Figure ==
  /\ pc = "figure"
  /\ \/ /\ fig' = [data |-> plot_data, layout |-> layout, built |-> TRUE]
        /\ pc' = "show" /\ UNCHANGED err
     \/ Abort("Layout: ValueError") /\ UNCHANGED fig
  /\ UNCHANGED <<argv, argi, handles, loaded, data, data0, layout, layout0, axes, i, trace,
                 trace_type, plot_data, shown, d, seen>>

\* fig.show() (156)
Show ==
  /\ pc = "show"
  /\ shown' = TRUE
  /\ pc' = "done"
  /\ UNCHANGED <<argv, argi, handles, loaded, data, data0, layout, layout0, axes, i, trace,
                 trace_type, plot_data, fig, err, d, seen>>

\* remove_empty_keys called on the mapping it returned
RemoveEmptyKeys ==
  /\ pc = "remove_empty_keys" /\ Len(seen) < MaxCalls
  /\ seen' = Append(seen, d)
  /\ d' = remove_empty_keys(d)
  /\ UNCHANGED <<pc, argv, argi, handles, loaded, data, data0, layout, layout0, axes, i,
                 trace, trace_type, plot_data, fig, shown, err>>

\* ------------------------------------------------------- the specifications
\* a run of the program, from its command line
Init ==
  /\ pc = "parse_args" /\ argv \in Argvs /\ argi = 1 /\ handles = {} /\ loaded = {}
  /\ data = <<>> /\ data0 = <<>> /\ layout = Null /\ layout0 = Null
  /\ axes = <<"x", "y">> /\ i = 1 /\ trace = NoTrace /\ trace_type = Null
  /\ plot_data = <<>> /\ fig = NoFig /\ shown = FALSE /\ err = ""
  /\ d = Map(<<>>) /\ seen = <<>>
Next ==
  \/ ParseArg \/ ParseEnd \/ LoadData \/ LoadLayout \/ LayoutRange
  \/ TracePop \/ TraceFilter \/ TraceStrip \/ TracePie \/ TraceXStr \/ TraceZ \/ TraceNew
  \/ Figure \/ Show
Spec == Init /\ [][Next]_vars

\* a command line that names two files that exist
CmdLine == <<[flag |-> "--data", exists |-> TRUE], [flag |-> "--layout", exists |-> TRUE]>>

\* the layout loop of main, on any layout: the state after both files were loaded
InitLayout ==
  /\ pc = "layout_range" /\ argv = CmdLine /\ argi = Len(CmdLine) + 1 /\ handles = Flags /\ loaded = Flags
  /\ data = <<>> /\ data0 = <<>> /\ layout \in Layouts /\ layout0 = layout
  /\ axes = <<"x", "y">> /\ i = 1 /\ trace = NoTrace /\ trace_type = Null
  /\ plot_data = <<>> /\ fig = NoFig /\ shown = FALSE /\ err = ""
  /\ d = Map(<<>>) /\ seen = <<>>
NextLayout == LayoutRange
SpecLayout == InitLayout /\ [][NextLayout]_vars

\* process_trace on any trace: the state after the layout loop
InitTrace ==
  /\ pc = "trace_pop" /\ argv = CmdLine /\ argi = Len(CmdLine) + 1 /\ handles = Flags /\ loaded = Flags
  /\ \E tr \in TraceInputs : data = <<tr>> /\ data0 = <<tr>>
  /\ layout = Map(<<>>) /\ layout0 = Map(<<>>)
  /\ axes = <<>> /\ i = 1 /\ trace = NoTrace /\ trace_type = Null
  /\ plot_data = <<>> /\ fig = NoFig /\ shown = FALSE /\ err = ""
  /\ d = Map(<<>>) /\ seen = <<>>
NextTrace ==
  TracePop \/ TraceFilter \/ TraceStrip \/ TracePie \/ TraceXStr \/ TraceZ \/ TraceNew
SpecTrace == InitTrace /\ [][NextTrace]_vars

\* remove_empty_keys on any mapping
InitRemove ==
  /\ pc = "remove_empty_keys" /\ argv = <<>> /\ argi = 1 /\ handles = {} /\ loaded = {}
  /\ data = <<>> /\ data0 = <<>> /\ layout = Null /\ layout0 = Null
  /\ axes = <<>> /\ i = 1 /\ trace = NoTrace /\ trace_type = Null
  /\ plot_data = <<>> /\ fig = NoFig /\ shown = FALSE /\ err = ""
  /\ d \in Dicts /\ seen = <<>>
NextRemove == RemoveEmptyKeys
SpecRemove == InitRemove /\ [][NextRemove]_vars


\* ------------------------------------------------------------ the claims

\* what the claims say of a mapping's entry: present, and a mapping itself
HasMap(m, key) == Has(m, key) /\ IsMap(Get(m, key))
KeySeq(m) == [j \in 1..Len(m.kids) |-> m.kids[j].k]
\* the axes process_layout_range has returned from
AxesDone == {"x", "y"} \ {axes[j] : j \in 1..Len(axes)}
\* m and n are the same mapping but for the entry under key
SameBut(m, n, key) ==
  /\ KeySeq(m) = KeySeq(n)
  /\ \A k \in Keys(m) \ {key} : Get(m, k) = Get(n, k)
HasRange(lay, axis) == HasMap(lay, AxisKey(axis)) /\ Has(Get(lay, AxisKey(axis)), "range")
RangeOf(lay, axis) == Get(Get(lay, AxisKey(axis)), "range")

\* C1: once process_layout_range has returned for an axis, that axis' range is
\* null if it was there with a length other than 2 and is as it was if it was
\* there with length 2; every other entry of the layout, an absent axis and an
\* absent range included, is as it was in the file.
C1_LayoutRange ==
  pc # "abort" =>
    /\ KeySeq(layout) = KeySeq(layout0)
    /\ \A k \in Keys(layout0) :
         IF \E axis \in AxesDone : k = AxisKey(axis) /\ HasRange(layout0, axis)
         THEN LET was == Get(Get(layout0, k), "range") IN
              /\ IsMap(Get(layout, k))
              /\ SameBut(Get(layout, k), Get(layout0, k), "range")
              /\ Sized(was)
              /\ PyLen(was) # 2 => Get(Get(layout, k), "range") = Null
              /\ PyLen(was) = 2 => Get(Get(layout, k), "range") = was
         ELSE Get(layout, k) = Get(layout0, k)

\* C1's case: both calls have returned, the x range had 3 elements and is null
\* now, the y range had 2 and is kept, and the title is as it was
C1_Witness ==
  /\ pc # "abort" /\ axes = <<>>
  /\ HasRange(layout0, "x") /\ IsList(RangeOf(layout0, "x")) /\ PyLen(RangeOf(layout0, "x")) = 3
  /\ RangeOf(layout, "x") = Null
  /\ HasRange(layout0, "y") /\ PyLen(RangeOf(layout0, "y")) = 2
  /\ RangeOf(layout, "y") = RangeOf(layout0, "y")
  /\ Has(layout, "title")


\* ---- process_trace: the trace in the file, and the mapping for the constructor

\* the trace being processed, as it was in the file
Trace0 == data0[i]
InTrace == i <= Len(data0)
IsType(tag) == InTrace /\ Has(Trace0, "trace_type") /\ Get(Trace0, "trace_type") = Str(tag)
\* process_trace has reached line 118: trace is what the constructor is handed
AtConstructor == pc = "trace_new"
\* process_trace is past its pie step
PastPie == pc \in {"trace_xstr", "trace_z", "trace_new"}

\* what the empty-strip makes of the value of a field: whether the field stays,
\* and the value it stays with
Stays(v) ==
  /\ IsList(v) => PyLen(v) # 0
  /\ IsMap(v) => PyLen(remove_empty_keys(v)) # 0
Stripped(v) == IF IsMap(v) THEN remove_empty_keys(v) ELSE v
\* x as the filter and the empty-strip leave it
XLeftAsStripped ==
  LET kept == /\ Has(Trace0, "x") /\ Stays(Get(Trace0, "x"))
              /\ "x" \in SchemaFields(trace_type.a)
  IN  /\ Has(trace, "x") <=> kept
      /\ kept => Get(trace, "x") = Stripped(Get(Trace0, "x"))

\* C2, as claimed: for a bar with an x_str field, whatever its value, the
\* mapping handed to the constructor has x equal to the x_str of the file and no
\* x_str; for any other type x_str is removed and x is as it was in the file.
C2_Claimed ==
  (AtConstructor /\ Has(Trace0, "x_str")) =>
    /\ ~Has(trace, "x_str")
    /\ IF IsType("bar")
       THEN Has(trace, "x") /\ Get(trace, "x") = Get(Trace0, "x_str")
       ELSE /\ Has(trace, "x") <=> Has(Trace0, "x")
            /\ Has(trace, "x") => Get(trace, "x") = Get(Trace0, "x")

\* C2, amended: the empty-strip comes first. The mapping handed to the
\* constructor never has x_str. For a bar whose x_str outlives the strip (it is
\* no empty list and no mapping the strip empties), x is that x_str as stripped;
\* in every other case x is what the filter and the strip left of the file's x.
C2_XStr ==
  (AtConstructor /\ Has(Trace0, "x_str")) =>
    /\ ~Has(trace, "x_str")
    /\ IF IsType("bar") /\ Stays(Get(Trace0, "x_str"))
       THEN Has(trace, "x") /\ Get(trace, "x") = Stripped(Get(Trace0, "x_str"))
       ELSE XLeftAsStripped

\* C2's case: a bar with both x and x_str, x replaced by the x_str of the file
C2_Witness ==
  /\ AtConstructor /\ IsType("bar")
  /\ Has(Trace0, "x_str") /\ Has(Trace0, "x")
  /\ Get(Trace0, "x") # Get(Trace0, "x_str")
  /\ Get(trace, "x") = Get(Trace0, "x_str")
  /\ ~Has(trace, "x_str")

\* the marker of the file's pie has both entries / lacks one of them
PieMarker == IsType("pie") /\ HasMap(Trace0, "marker")
MarkerHasBoth ==
  PieMarker /\ {"opacity", "colorscale"} \subseteq Keys(Get(Trace0, "marker"))
MarkerLacksOne ==
  PieMarker /\ ~({"opacity", "colorscale"} \subseteq Keys(Get(Trace0, "marker")))

\* C3, as claimed: for a pie whose marker has an opacity and a colorscale, of any
\* values, the fixups raise no KeyError, and the mapping handed to the constructor
\* has neither marker.opacity nor marker.colorscale.
C3_Claimed ==
  MarkerHasBoth =>
    /\ err # "KeyError"
    /\ (AtConstructor /\ Has(trace, "marker")) =>
         Keys(Get(trace, "marker")) \cap {"opacity", "colorscale"} = {}

\* C9, as claimed: for a pie whose marker is there and lacks opacity or
\* colorscale, an empty marker included, process_trace never gets past its pie
\* step.
C9_Claimed == MarkerLacksOne => ~PastPie

\* C9, amended: for a pie whose marker lacks opacity or colorscale and is not
\* empty after the empty-strip, process_trace never gets past its pie step, and
\* the run ends in a KeyError; a marker the strip empties is dropped with it,
\* and then no KeyError is raised.
C9_PieKeyError ==
  MarkerLacksOne =>
    IF Stays(Get(Trace0, "marker"))
    THEN ~PastPie /\ (pc = "abort" => err = "KeyError")
    ELSE err # "KeyError" /\ (PastPie => ~Has(trace, "marker"))

\* C9's case: the marker had an opacity but no colorscale; the first pop was
\* done, the second raised
C9_Witness ==
  /\ MarkerLacksOne /\ Has(Get(Trace0, "marker"), "opacity")
  /\ pc = "abort" /\ err = "KeyError"
  /\ Has(trace, "marker") /\ ~Has(Get(trace, "marker"), "opacity")


\* the numbers of a nested list, row by row
RECURSIVE RowByRow(_)
RowByRow(es) ==
  IF es = <<>> THEN <<>>
  ELSE (IF IsList(Head(es).v) THEN RowByRow(Head(es).v.kids) ELSE <<Head(es)>>)
         \o RowByRow(Tail(es))
\* z is a list of lists with at least one row / a list of numbers with at least one
NestedZ(z) == IsList(z) /\ PyLen(z) > 0 /\ \A j \in 1..PyLen(z) : IsList(z.kids[j].v)
FlatZ(z)   == IsList(z) /\ PyLen(z) > 0 /\ \A j \in 1..PyLen(z) : ~IsList(z.kids[j].v)

\* C4, as claimed: for a scatter3d whose z is a nested array of arrays, z is
\* replaced by the one-dimensional sequence of its elements row by row, and a z
\* that is flat already keeps its elements in their order; the flattening does
\* not fail.
C4_Claimed ==
  (IsType("scatter3d") /\ Has(Trace0, "z")
     /\ (NestedZ(Get(Trace0, "z")) \/ FlatZ(Get(Trace0, "z")))) =>
    /\ err # "np.array: ValueError"
    /\ AtConstructor =>
         /\ Has(trace, "z")
         /\ Get(trace, "z").kids = RowByRow(Get(Trace0, "z").kids)

\* no empty mapping and no empty list anywhere in v, the elements of lists included
RECURSIVE NoEmptyAnywhere(_)
NoEmptyAnywhere(v) ==
  \A j \in 1..Len(v.kids) :
    LET w == v.kids[j].v IN
    (IsMap(w) \/ IsList(w)) => PyLen(w) # 0 /\ NoEmptyAnywhere(w)
\* no empty mapping and no empty list is the value of a key of m, nor of a key of
\* a mapping reached from m through the values of keys
RECURSIVE NoEmptyValues(_)
NoEmptyValues(m) ==
  \A j \in 1..Len(m.kids) :
    LET w == m.kids[j].v IN
    /\ IsList(w) => PyLen(w) # 0
    /\ IsMap(w) => PyLen(w) # 0 /\ NoEmptyValues(w)
AfterStrip == pc = "trace_pie"

\* C10, as claimed: after the empty-strip of process_trace no empty mapping and
\* no empty sequence is left in the trace at any depth, inside lists included.
C10_Claimed == AfterStrip => NoEmptyAnywhere(trace)

\* C10, amended: after the empty-strip no empty mapping and no empty sequence is
\* left as the value of a key, of the trace or of a mapping nested in it through
\* keys; lists are not descended into, and what they hold stays.
C10_NoEmptyValues == AfterStrip => NoEmptyValues(trace)

\* C10's case: the strip dropped the file's empty x, and an empty list from
\* inside the x_str mapping, which it kept
C10_Witness ==
  /\ AfterStrip /\ IsType("scatter")
  /\ Has(Trace0, "x") /\ ~Has(trace, "x")
  /\ Has(trace, "x_str") /\ IsMap(Get(trace, "x_str"))
  /\ Keys(Get(trace, "x_str")) # Keys(Get(Trace0, "x_str"))

C5_Idempotent == Len(seen) >= 2 => d = seen[Len(seen)]

\* C5's case: two calls, the first of which removed a key of the mapping and a
\* key of a mapping nested in it, and left it with entries
C5_Witness ==
  /\ Len(seen) = 2
  /\ Keys(seen[2]) # Keys(seen[1])
  /\ \E k \in Keys(seen[2]) :
       /\ IsMap(Get(seen[2], k))
       /\ Keys(Get(seen[2], k)) # Keys(Get(seen[1], k))

\* ---- the command line
\* the positions of the options whose path does not exist
Missing == {j \in 1..Len(argv) : ~argv[j].exists}
FirstMissing == CHOOSE j \in Missing : \A k \in Missing : j <= k
NothingProcessed ==
  /\ loaded = {} /\ data = <<>> /\ layout = Null
  /\ trace = NoTrace /\ plot_data = <<>> /\ ~fig.built /\ ~shown

\* C6: if a path given to --data or --layout does not exist, in whichever order
\* the options come, argparse stops at the first such path: no option after it
\* is taken, so no file is opened after it; no file is parsed, nothing is
\* sanitized, no figure is built or shown; and the run ends in the parser's
\* file-not-found error.
C6_MissingFile ==
  Missing # {} =>
    /\ pc \in {"parse_args", "exit"}
    /\ argi <= FirstMissing + 1
    /\ handles \subseteq {argv[j].flag : j \in 1..(FirstMissing - 1)}
    /\ NothingProcessed
    /\ pc = "exit" <=> argi = FirstMissing + 1
    /\ pc = "exit" => err = "file_not_found"

\* C6's case: --data names a file that exists and was opened, --layout, after
\* it, one that does not; the run has ended
C6_Witness ==
  /\ pc = "exit" /\ err = "file_not_found"
  /\ Len(argv) = 2 /\ argv[1].flag = "--data" /\ argv[1].exists
  /\ argv[2].flag = "--layout" /\ ~argv[2].exists
  /\ handles = {"--data"}

\* ---- an unknown trace type
\* the positions in the data file of the traces whose tag type_map does not know
UnknownTag(tr) == Has(tr, "trace_type") /\ ~(Get(tr, "trace_type").t = "str" /\ Get(tr, "trace_type").a \in TypeTags)
Unknown == {j \in 1..Len(data0) : UnknownTag(data0[j])}
FirstUnknown == CHOOSE j \in Unknown : \A k \in Unknown : j <= k

\* C8: if a trace of the data file has a trace_type that is none of the seven
\* tags, the figure is never assembled nor shown; process_trace fails on the
\* first such trace with a KeyError, however many traces before it were built;
\* no trace after it is processed, and a run that was aborted has shown nothing.
C8_UnknownType ==
  /\ Unknown # {} =>
       /\ pc \notin {"figure", "show", "done"}
       /\ ~fig.built /\ ~shown
       /\ i <= FirstUnknown /\ Len(plot_data) < FirstUnknown
       /\ (i = FirstUnknown /\ trace_type = Get(data0[i], "trace_type")) =>
            /\ pc \in {"trace_filter", "abort"}
            /\ pc = "abort" => err = "KeyError"
  /\ pc = "abort" => ~fig.built /\ ~shown

\* C8's case: the first trace was built, the second has an unknown tag, and the
\* run ended in the KeyError
C8_Witness ==
  /\ pc = "abort" /\ err = "KeyError"
  /\ Len(data0) = 2 /\ UnknownTag(data0[2])
  /\ i = 2 /\ Len(plot_data) = 1
  /\ trace_type = Get(data0[2], "trace_type")

=============================================================================
